---- MODULE Spec2Model ----
(***************************************************************************)
(* PlaywrightPool (server/src/playwright/PlaywrightPool.ts): one browser   *)
(* page per symbol, a prioritized open queue under a concurrency ceiling,  *)
(* idle close, capacity eviction, fan-out of page pushes to listeners and  *)
(* the screener fast path of subscribe. On top of it the price service     *)
(* (server/src/rpc/priceService.impl.ts): the interest set and reference   *)
(* counts of the clients, and per stream its reconcile, its outward queue  *)
(* and its teardown. Beside them the page of the web client                *)
(* (web/app/page.tsx): its ticker list, saved and restored, and the        *)
(* stream effect with its backoff and its watchdog.                        *)
(*                                                                         *)
(* Node runs every callback to completion, so one action is one callback   *)
(* (or the synchronous part of an async method up to its next await).      *)
(* In the specifications of the pool alone the browser is launched:        *)
(* `await this.ensure()` in subscribe resolves without touching pool       *)
(* state, and the body that follows it is one step. In the specification   *)
(* of the service the browser is launched by the first subscribe, which    *)
(* takes time and may fail; once it is launched the continuation of that   *)
(* await is a microtask, which runs before any other callback and before   *)
(* the finally of a generator that is returned in the same turn.           *)
(***************************************************************************)
EXTENDS Integers, Sequences, FiniteSets, Bags, TLC

\* ------------------------------------------------------------ parameters

\* Symbols as callers pass them, and what String.toUpperCase makes of them.
Symbols == {"x", "X", "Y", "Z"}
OneSymbol == {"x", "X"}
toUpperCase(s) == IF s = "x" THEN "X" ELSE s
Keys == {toUpperCase(s) : s \in Symbols}
\* The client ids of the requests.
Clients == {"c1"}
SecondStream == "c1+"                    \* a second streamPrices call of client c1
StreamIds == Clients \cup {SecondStream}
\* Strings that are no ticker: req.symbol ?? '' of a request without symbol, a digit.
NotTickers == {"", "1"}
\* More symbols than the queue takes, in the order a caller subscribes them.
ManySymbols ==
  <<"S001", "S002", "S003", "S004", "S005", "S006", "S007", "S008", "S009", "S010",
     "S011", "S012", "S013", "S014", "S015", "S016", "S017", "S018", "S019", "S020",
     "S021", "S022", "S023", "S024", "S025", "S026", "S027", "S028", "S029", "S030",
     "S031", "S032", "S033", "S034", "S035", "S036", "S037", "S038", "S039", "S040",
     "S041", "S042", "S043", "S044", "S045", "S046", "S047", "S048", "S049", "S050",
     "S051", "S052", "S053", "S054", "S055", "S056", "S057", "S058", "S059", "S060",
     "S061", "S062", "S063", "S064", "S065", "S066", "S067", "S068", "S069", "S070",
     "S071", "S072", "S073", "S074", "S075", "S076", "S077", "S078", "S079", "S080",
     "S081", "S082", "S083", "S084", "S085", "S086", "S087", "S088", "S089", "S090",
     "S091", "S092", "S093", "S094", "S095", "S096", "S097", "S098", "S099", "S100",
     "S101", "S102">>
Listeners == {"L1", "L2"}
\* Price strings a page may report; "" and " " are the empty updates.
Prices == {"", " ", "100", "101 "}

maxQueue == 100
\* The clock counts units of idleMs, 45000 ms as priceService.impl.ts constructs the
\* pool; the queue timeout of 10000 ms is less than one unit.
TimeUnit == 45000
idleMs == 45000 \div TimeUnit
queueTimeoutMs == 10000 \div TimeUnit
screenerCacheTtlMs == 10000 \div TimeUnit

\* Horizon of the clock.
MaxTime == 1
\* Calls and clock ticks in a run of the specification that counts them.
MaxSteps == 6
MaxOpenerCalls == 3   \* opens of one key that are counted, where they are counted

\* JS undefined for a symbol, and Number.POSITIVE_INFINITY for a timestamp.
Undefined == ""
Infinity == MaxTime + 1

\* ------------------------------------------------------------ state

VARIABLES
  symbolToPage,       \* keys of the Map, in insertion order
  symbolToSubs,       \* key -> listeners of its Set, in insertion order
  symbolToIdleTimer,  \* key -> "live" | "dead": the handle of the last timer set for
                      \* the key; it was set together with warmUntil[key], its deadline
  strayTimers,        \* [sym, deadline]: pending timers whose handle the Map lost
  symbolToLast,       \* key -> last price
  lastUsed,           \* key -> timestamp
  warmUntil,          \* key -> timestamp
  inFlightOpens,      \* the counter
  queuedJobs,         \* key -> [priority, enqueuedAt]
  queueByPriority,    \* <<hot, warm, cold>> buckets of keys
  lastDrain,          \* the keys whose jobs the last run of the queue code cancelled,
                      \* and those whose jobs it found timed out
  opens,              \* bag of openPage calls started and not settled
  closing,            \* bag of keys whose idle closePage awaits page.close()
  lastFanout,         \* what the last push handler did
  now,                \* Date.now()
  openConcurrency,    \* PLAYWRIGHT_OPEN_CONCURRENCY
  maxPages,           \* the constructor's maxPages
  screenerCache,      \* key -> [price, ts]
  screenerFetches,    \* bag of [sym, ts]: fetchFromScreener calls awaiting the screener page
  screenerRows,       \* prices the screener page can show for a symbol
  lastPush,           \* key -> price of the last push of its page that was processed
  steps,              \* calls and clock ticks so far, where they are counted
  browser,            \* "none" | "launched": this.browser of the pool
  clientToSymbols,    \* client -> symbols of its Set, in insertion order
  clientToNotifier,   \* the streams whose notifier the Map holds, one per client at most
  symbolRef,          \* symbol -> reference count
  stream,             \* client -> the locals of its streamPrices call
  reply,              \* the last value handed back by addTicker or removeTicker, or
                      \* by a read of the pool, if any
  symbols,            \* page.tsx: the ticker list of the page, in insertion order
  localStorage,       \* the list saved under 'symbols'; <<>> when nothing is saved
  addRecent,          \* Date.now() - lastAddRef.current is below the debounce window
  status,             \* 'connecting' | 'connected' | 'retrying' as last set
  retryMs,            \* the backoff of the stream effect
  sinceMsg,           \* Date.now() - lastMsgTs, in periods of the watchdog interval
  reconnectRequested, \* the flag of the watchdog
  watchdog,           \* the interval is set
  attempt,            \* where run() stands, whether its stream has delivered or ended
                      \* in order, the attempts failed in a row before that, the
                      \* delay of the retry pending
  lastAdd,            \* what the last add of the page did
  openerCalls         \* key -> the opens started for it so far, where they are counted

vars == <<symbolToPage, symbolToSubs, symbolToIdleTimer, strayTimers, symbolToLast,
          lastUsed, warmUntil, inFlightOpens, queuedJobs, queueByPriority, lastDrain, opens,
          closing, lastFanout, now, openConcurrency, maxPages, screenerCache,
          screenerFetches, screenerRows, lastPush, steps, browser, clientToSymbols,
          clientToNotifier, symbolRef, stream, reply, symbols, localStorage, addRecent,
          status, retryMs, sinceMsg, reconnectRequested, watchdog, attempt, lastAdd,
          openerCalls>>

config == <<openConcurrency, maxPages, screenerRows>>
screener == <<screenerCache, screenerFetches>>
service == <<browser, clientToSymbols, clientToNotifier, symbolRef, stream, reply>>
web == <<symbols, localStorage, addRecent, status, retryMs, sinceMsg, reconnectRequested,
         watchdog, attempt, lastAdd>>

\* ------------------------------------------------------------ Map / Set / Array

Has(m, k) == k \in DOMAIN m
Put(m, k, v) == [x \in (DOMAIN m) \cup {k} |-> IF x = k THEN v ELSE m[x]]
Del(m, k) == [x \in (DOMAIN m) \ {k} |-> m[x]]
EmptyMap == [x \in {} |-> 0]

InSeq(s, x) == \E i \in 1..Len(s) : s[i] = x
IndexOf(s, x) == IF InSeq(s, x) THEN CHOOSE i \in 1..Len(s) : s[i] = x /\ \A j \in 1..(i-1) : s[j] # x ELSE 0
\* Array.splice(indexOf(x), 1), Set.delete(x), Map.delete(x) on the key order
RemoveFirst(s, x) ==
  LET i == IndexOf(s, x)
  IN IF i = 0 THEN s ELSE SubSeq(s, 1, i-1) \o SubSeq(s, i+1, Len(s))
\* Set.add(x), Map.set(x, _) on the key order: an existing member keeps its place
AddLast(s, x) == IF InSeq(s, x) THEN s ELSE Append(s, x)
Min(a, b) == IF a < b THEN a ELSE b
Max(a, b) == IF a > b THEN a ELSE b

SubsOf(subs, k) == IF Has(subs, k) THEN subs[k] ELSE <<>>
NoSubs(subs, k) == ~Has(subs, k) \/ Len(subs[k]) = 0

\* ------------------------------------------------------------ the open queue

\* What the synchronous queue code reads and does not write.
Ctx == [subs |-> symbolToSubs, warm |-> warmUntil, pages |-> symbolToPage,
        used |-> lastUsed, now |-> now]
\* What it writes.
Q == [jobs |-> queuedJobs, q |-> queueByPriority, inflight |-> inFlightOpens, opens |-> opens,
      cancelled |-> {}, timedOut |-> {}]

computePriority(c, sym) ==
  IF Has(c.subs, sym) /\ Len(c.subs[sym]) > 0 THEN 0
  ELSE IF (IF Has(c.warm, sym) THEN c.warm[sym] ELSE 0) > c.now THEN 1
  ELSE 2

totalQueued(d) == Len(d.q[1]) + Len(d.q[2]) + Len(d.q[3])

\* openPage, lines 169-179: the scan over symbolToPage.entries()
RECURSIVE VictimScan(_, _, _, _)
VictimScan(c, i, victim, oldest) ==
  IF i > Len(c.pages) THEN victim
  ELSE LET sym == c.pages[i]
           last == IF Has(c.used, sym) THEN c.used[sym] ELSE 0
       IN IF NoSubs(c.subs, sym) /\ last < oldest
          THEN VictimScan(c, i + 1, sym, last)
          ELSE VictimScan(c, i + 1, victim, oldest)

\* A choice of the unsubscribed page that entered the table last.
SelectVictimNewest(c) ==
  LET idle == SelectSeq(c.pages, LAMBDA k : NoSubs(c.subs, k))
  IN IF idle = <<>> THEN Undefined ELSE idle[Len(idle)]
\* let victim = undefined, oldest = Infinity, and the loop
SelectVictim(c) == VictimScan(c, 1, Undefined, Infinity)

\* A guard that evicts only above the cap.
OpenPageStartAbove(c, sym) ==
  IF Len(c.pages) > maxPages /\ SelectVictim(c) # Undefined
  THEN [sym |-> sym, phase |-> "evicting", victim |-> SelectVictim(c)]
  ELSE [sym |-> sym, phase |-> "loading", victim |-> Undefined]
\* openPage up to its first await: the capacity guard. With a victim the call
\* waits for closePage(victim); without one it goes on to open the page.
OpenPageStart(c, sym) ==
  IF Len(c.pages) >= maxPages
  THEN LET victim == SelectVictim(c)
       IN IF victim # Undefined
          THEN [sym |-> sym, phase |-> "evicting", victim |-> victim]
          ELSE [sym |-> sym, phase |-> "loading", victim |-> Undefined]
  ELSE [sym |-> sym, phase |-> "loading", victim |-> Undefined]

NextBucket(d) ==
  IF Len(d.q[1]) > 0 THEN 1 ELSE IF Len(d.q[2]) > 0 THEN 2 ELSE IF Len(d.q[3]) > 0 THEN 3 ELSE 0

\* A guard that keeps one slot back.
DrainGuardBelow(d) == d.inflight + 1 < openConcurrency
\* A guard that lets one open too many start.
DrainGuardSlack(d) == d.inflight <= openConcurrency
\* drainQueue's loop condition
DrainGuard(d) == d.inflight < openConcurrency

ExistingNever(d, sym) == FALSE

\* A queue that never counts as full.
QueueFullNever(d) == FALSE
\* if (this.totalQueued() >= this.maxQueue), line 422
QueueFull(d) == totalQueued(d) >= maxQueue

\* const existing = this.queuedJobs.get(symbol), lines 409-410
Existing(d, sym) == Has(d.jobs, sym)

\* A rule that drops Warm jobs too.
CancelNotHot(pri, job) == pri > job.priority
\* if (pri > job.priority && pri === 2), line 463
Cancel(pri, job) == pri > job.priority /\ pri = 2

RECURSIVE drainQueue(_, _)
RECURSIVE enqueueOpen(_, _, _, _)

\* A retry that forgets the job.
RetryForgets(c, d, sym) == d
\* this.enqueueOpen(sym, 0), line 477
Retry(c, d, sym) == enqueueOpen(c, d, sym, 0)

drainQueue(c, d) ==
  IF ~DrainGuard(d) THEN d
  ELSE LET p == NextBucket(d)
       IN IF p = 0 THEN d
          ELSE LET sym == Head(d.q[p])
                   d1 == [d EXCEPT !.q[p] = Tail(@)]
               IN IF ~Has(d1.jobs, sym) THEN drainQueue(c, d1)
                  ELSE LET job == d1.jobs[sym]
                           pri == computePriority(c, sym)
                           d2 == [d1 EXCEPT !.jobs = Del(@, sym)]
                       IN IF Cancel(pri, job)
                          THEN drainQueue(c, [d2 EXCEPT !.cancelled = @ \cup {sym}])
                          ELSE IF c.now - job.enqueuedAt > queueTimeoutMs
                          THEN drainQueue(c, Retry(c, [d2 EXCEPT !.timedOut = @ \cup {sym}], sym))
                          ELSE drainQueue(c, [d2 EXCEPT !.inflight = @ + 1,
                                                       !.opens = @ (+) SetToBag({OpenPageStart(c, sym)})])

enqueueOpen(c, d, sym, requestedPriority) ==
  IF InSeq(c.pages, sym) THEN d
  ELSE LET priority == Min(requestedPriority, computePriority(c, sym))
       IN IF Existing(d, sym)
          THEN IF priority < d.jobs[sym].priority
               THEN [d EXCEPT !.jobs[sym].priority = priority,
                              !.q = [i \in 1..3 |->
                                       IF i = priority + 1
                                       THEN Append(RemoveFirst(d.q[i], sym), sym)
                                       ELSE RemoveFirst(d.q[i], sym)]]
               ELSE d
          ELSE IF QueueFull(d) THEN d
          ELSE drainQueue(c, [d EXCEPT !.jobs = Put(@, sym, [priority |-> priority, enqueuedAt |-> c.now]),
                                       !.q[priority + 1] = Append(@, sym)])

SetQ(d) ==
  /\ queuedJobs' = d.jobs
  /\ queueByPriority' = d.q
  /\ lastDrain' = [cancelled |-> d.cancelled, timedOut |-> d.timedOut]
  /\ inFlightOpens' = d.inflight
  /\ opens' = d.opens

\* ------------------------------------------------------------ fan-out

\* subs.forEach(fn => fn(data)): listeners are called in insertion order until one throws
RECURSIVE ForEach(_, _)
ForEach(subs, throwing) ==
  IF subs = <<>> THEN <<>>
  ELSE IF Head(subs) \in throwing THEN <<Head(subs)>>
  ELSE <<Head(subs)>> \o ForEach(Tail(subs), throwing)

\* What a fan-out did: the listener that threw (if one did) and the listeners of the
\* snapshot that were not called.
Fanout(subs, throwing) ==
  LET got == ForEach(subs, throwing)
  IN [threw |-> IF got # <<>> /\ got[Len(got)] \in throwing THEN got[Len(got)] ELSE Undefined,
      missed |-> SubSeq(subs, Len(got) + 1, Len(subs))]

\* ------------------------------------------------------------ subscribe / unsubscribe

\* clearTimeout(handle): the timer leaves the pending ones, the Map keeps the handle
ClearTimer(timers, k) == IF Has(timers, k) THEN [timers EXCEPT ![k] = "dead"] ELSE timers

\* fetchFromScreener up to its first await: a fresh cache entry answers at once
ScreenerHit(upper) ==
  Has(screenerCache, upper) /\ now - screenerCache[upper].ts <= screenerCacheTtlMs

\* subscribe after `await this.ensure()`. The fast path (lines 140-148) ends in the
\* same step when the cache answers; otherwise its fetch waits for the screener
\* page. A fetch that can find no row changes nothing when it ends and is not kept.
Subscribe(symbol, onData, throwing) ==
  LET upper == toUpperCase(symbol)
      subs1 == Put(symbolToSubs, upper, AddLast(SubsOf(symbolToSubs, upper), onData))
      used1 == Put(lastUsed, upper, now)
      c == [Ctx EXCEPT !.subs = subs1, !.used = used1]
  IN /\ symbolToSubs' = subs1
     /\ lastUsed' = used1
     /\ symbolToIdleTimer' = ClearTimer(symbolToIdleTimer, upper)
     /\ SetQ(IF ~InSeq(symbolToPage, upper) THEN enqueueOpen(c, Q, upper, 0) ELSE Q)
     /\ IF ScreenerHit(upper)
        THEN /\ symbolToLast' = Put(symbolToLast, upper, screenerCache[upper].price)
             /\ lastFanout' = Fanout(subs1[upper], throwing)
             /\ UNCHANGED screenerFetches
        ELSE /\ screenerFetches' = IF screenerRows = {} THEN screenerFetches
                                   ELSE screenerFetches (+) SetToBag({[sym |-> upper, ts |-> now]})
             /\ UNCHANGED <<symbolToLast, lastFanout>>
     /\ UNCHANGED <<symbolToPage, strayTimers, warmUntil, closing, lastPush, now, config, screenerCache>>

\* `await this.fetchFromScreener(upper)` of the fast path resolves: with a price of
\* the screener page, or with undefined ("" here) on a miss or an error
ScreenerResolves(f, p, throwing) ==
  /\ BagIn(f, screenerFetches)
  /\ screenerFetches' = screenerFetches (-) SetToBag({f})
  /\ IF p # ""
     THEN /\ screenerCache' = Put(screenerCache, f.sym, [price |-> p, ts |-> f.ts])
          /\ symbolToLast' = Put(symbolToLast, f.sym, p)
          /\ lastFanout' = Fanout(SubsOf(symbolToSubs, f.sym), throwing)
     ELSE UNCHANGED <<screenerCache, symbolToLast, lastFanout>>
  /\ UNCHANGED <<symbolToPage, symbolToSubs, symbolToIdleTimer, strayTimers, lastUsed, warmUntil,
                 inFlightOpens, queuedJobs, queueByPriority, lastDrain, opens, closing, lastPush, now, config>>

\* A pending timer whose handle leaves the Map (overwritten by Map.set, or dropped
\* by Map.delete) without clearTimeout stays pending.
Stray(timers, k) ==
  IF Has(timers, k) /\ timers[k] = "live" THEN {[sym |-> k, deadline |-> warmUntil[k]]} ELSE {}

unsubscribeNothing(u, symbol, onData) == u

\* What unsubscribe reads and writes.
U == [subs |-> symbolToSubs, warm |-> warmUntil, timers |-> symbolToIdleTimer, strays |-> strayTimers]

\* unsubscribe, lines 152-163, as a function of the state it touches
unsubscribe(u, symbol, onData) ==
  LET upper == toUpperCase(symbol)
  IN IF ~Has(u.subs, upper) THEN u
     ELSE LET left == RemoveFirst(u.subs[upper], onData)
              u1 == [u EXCEPT !.subs[upper] = left]
          IN IF Len(left) = 0
             THEN [u1 EXCEPT !.warm = Put(@, upper, now + idleMs),
                             !.strays = @ \cup (IF Has(u.timers, upper) /\ u.timers[upper] = "live"
                                                THEN {[sym |-> upper, deadline |-> u.warm[upper]]}
                                                ELSE {}),
                             !.timers = Put(@, upper, "live")]
             ELSE u1

SetU(u) ==
  /\ symbolToSubs' = u.subs
  /\ warmUntil' = u.warm
  /\ symbolToIdleTimer' = u.timers
  /\ strayTimers' = u.strays

\* a call of unsubscribe for a key the pool has a Set for
Unsubscribe(symbol, onData) ==
  /\ Has(symbolToSubs, toUpperCase(symbol))
  /\ SetU(unsubscribe(U, symbol, onData))
  /\ UNCHANGED <<symbolToPage, symbolToLast, lastUsed, inFlightOpens, queuedJobs, queueByPriority, lastDrain,
                 opens, closing, lastFanout, lastPush, now, config, screener>>

\* ------------------------------------------------------------ closePage

\* closePage after `await page.close()`, or the whole of it when the key has no page
ClosePageEnd(symbol, timers, strays) ==
  /\ symbolToPage' = RemoveFirst(symbolToPage, symbol)
  /\ symbolToIdleTimer' = Del(timers, symbol)
  /\ strayTimers' = strays \cup Stray(timers, symbol)
  /\ lastUsed' = Del(lastUsed, symbol)

\* closePage called by an idle timer
ClosePage(symbol, timers, strays) ==
  IF InSeq(symbolToPage, symbol)
  THEN /\ closing' = closing (+) SetToBag({symbol})
       /\ symbolToIdleTimer' = timers
       /\ strayTimers' = strays
       /\ UNCHANGED <<symbolToPage, lastUsed>>
  ELSE /\ ClosePageEnd(symbol, timers, strays)
       /\ UNCHANGED closing

\* the setTimeout callback of unsubscribe, for the timer the Map still holds
IdleTimerFires(k) ==
  /\ Has(symbolToIdleTimer, k) /\ symbolToIdleTimer[k] = "live"
  /\ now >= warmUntil[k]
  /\ ClosePage(k, [symbolToIdleTimer EXCEPT ![k] = "dead"], strayTimers)
  /\ UNCHANGED <<symbolToSubs, symbolToLast, warmUntil, inFlightOpens, queuedJobs, queueByPriority, lastDrain,
                 opens, lastFanout, lastPush, now, config, screener>>

\* the same callback, for a timer the Map no longer holds
StrayTimerFires(t) ==
  /\ t \in strayTimers
  /\ now >= t.deadline
  /\ ClosePage(t.sym, symbolToIdleTimer, strayTimers \ {t})
  /\ UNCHANGED <<symbolToSubs, symbolToLast, warmUntil, inFlightOpens, queuedJobs, queueByPriority, lastDrain,
                 opens, lastFanout, lastPush, now, config, screener>>

\* page.close() of an idle close resolves
ClosePageDone(k) ==
  /\ BagIn(k, closing)
  /\ closing' = closing (-) SetToBag({k})
  /\ ClosePageEnd(k, symbolToIdleTimer, strayTimers)
  /\ UNCHANGED <<symbolToSubs, symbolToLast, warmUntil, inFlightOpens, queuedJobs, queueByPriority, lastDrain,
                 opens, lastFanout, lastPush, now, config, screener>>

\* ------------------------------------------------------------ openPage

\* `await this.closePage(victim)` of the capacity guard resolves; openPage goes on
EvictDone(o) ==
  /\ BagIn(o, opens) /\ o.phase = "evicting"
  /\ ClosePageEnd(o.victim, symbolToIdleTimer, strayTimers)
  /\ opens' = (opens (-) SetToBag({o})) (+) SetToBag({[sym |-> o.sym, phase |-> "loading", victim |-> Undefined]})
  /\ UNCHANGED <<symbolToSubs, symbolToLast, warmUntil, inFlightOpens, queuedJobs, queueByPriority, lastDrain,
                 closing, lastFanout, lastPush, now, config, screener>>

\* .finally of drainQueue
Finally(c, d) == drainQueue(c, [d EXCEPT !.inflight = Max(0, @ - 1)])

\* openPage reaches its end (lines 397-398), then .then and .finally of drainQueue
OpenSucceeds(o) ==
  /\ BagIn(o, opens) /\ o.phase = "loading"
  /\ LET pages1 == AddLast(symbolToPage, o.sym)
         used1 == Put(lastUsed, o.sym, now)
         c == [Ctx EXCEPT !.pages = pages1, !.used = used1]
         d == [Q EXCEPT !.opens = @ (-) SetToBag({o})]
     IN /\ symbolToPage' = pages1
        /\ lastUsed' = used1
        /\ SetQ(Finally(c, d))
  /\ UNCHANGED <<symbolToSubs, symbolToIdleTimer, strayTimers, symbolToLast, warmUntil, closing,
                 lastFanout, lastPush, now, config, screener>>

\* .catch of drainQueue
Catch(c, d, sym) == IF Len(SubsOf(c.subs, sym)) > 0 THEN enqueueOpen(c, d, sym, 1) ELSE d

\* an await of openPage rejects (newPage, exposeFunction, goto ...), then .catch and .finally
OpenFails(o) ==
  /\ BagIn(o, opens) /\ o.phase = "loading"
  /\ LET d == [Q EXCEPT !.opens = @ (-) SetToBag({o})]
     IN SetQ(Finally(Ctx, Catch(Ctx, d, o.sym)))
  /\ UNCHANGED <<symbolToPage, symbolToSubs, symbolToIdleTimer, strayTimers, symbolToLast, lastUsed,
                 warmUntil, closing, lastFanout, lastPush, now, config, screener>>

\* ------------------------------------------------------------ pushes

\* String.prototype.trim on the price strings of the model
trim(s) == IF s = " " THEN "" ELSE IF s = "101 " THEN "101" ELSE IF s = " x " THEN "x" ELSE s

\* A page of the key exists in the browser: it is in the table or being loaded.
PageLive(k) == InSeq(symbolToPage, k) \/ \E o \in BagToSet(opens) : o.sym = k /\ o.phase = "loading"

\* the three statements both handlers end with: set symbolToLast, set lastUsed, fan out
OnPrice(symbol, price, throwing) ==
  /\ symbolToLast' = Put(symbolToLast, symbol, price)
  /\ lastUsed' = Put(lastUsed, symbol, now)
  /\ lastFanout' = Fanout(SubsOf(symbolToSubs, symbol), throwing)
  /\ lastPush' = Put(lastPush, symbol, price)

\* page.exposeFunction('notifyPrice', ...), lines 213-226
NotifyPrice(symbol, price, throwing) ==
  /\ PageLive(symbol)
  /\ IF price = "" \/ trim(price) = ""
     THEN UNCHANGED <<symbolToLast, lastUsed, lastFanout, lastPush>>
     ELSE OnPrice(symbol, price, throwing)
  /\ UNCHANGED <<symbolToPage, symbolToSubs, symbolToIdleTimer, strayTimers, warmUntil, inFlightOpens,
                 queuedJobs, queueByPriority, lastDrain, opens, closing, now, config, screener>>

\* A console line of the page: the text before the first blank, and the rest.
ConsoleLines == [tag : {"PP_PRICE", "Raw"}, rest : Prices]

\* page.on('console', ...), lines 192-209
ConsolePrice(symbol, line, throwing) ==
  /\ PageLive(symbol)
  /\ LET m == line.tag = "PP_PRICE" /\ line.rest # ""
         price == trim(line.rest)
     IN IF m /\ price # ""
        THEN OnPrice(symbol, price, throwing)
        ELSE UNCHANGED <<symbolToLast, lastUsed, lastFanout, lastPush>>
  /\ UNCHANGED <<symbolToPage, symbolToSubs, symbolToIdleTimer, strayTimers, warmUntil, inFlightOpens,
                 queuedJobs, queueByPriority, lastDrain, opens, closing, now, config, screener>>

\* getLastPrice, lines 514-519
getLastPrice(symbol) ==
  LET upper == toUpperCase(symbol)
  IN IF Has(symbolToLast, upper) THEN symbolToLast[upper] ELSE Undefined

\* ------------------------------------------------------------ priceService.impl.ts
\* inc, lines 25-28
inc(ref, symbol) == Put(ref, symbol, (IF Has(ref, symbol) THEN ref[symbol] ELSE 0) + 1)

\* dec, lines 29-33
dec(ref, symbol) ==
  LET c == (IF Has(ref, symbol) THEN ref[symbol] ELSE 0) - 1
  IN IF c <= 0 THEN Del(ref, symbol) ELSE Put(ref, symbol, c)

isTickerAlways(symbol) == TRUE

\* /^[A-Z]+USDT?$/.test(symbol), line 41: the keys of the model stand for tickers,
\* and the symbols of NotTickers for strings that do not match after upper-casing
isTicker(symbol) == symbol \in Keys

\* the AddTickerResponse of lines 42 and 64, without its initial price
AddTickerResponse(symbol) ==
  IF ~isTicker(symbol)
  THEN [success |-> FALSE, errorMessage |-> "invalid symbol"]
  ELSE [success |-> TRUE, errorMessage |-> ""]

\* req.clientId of a call, lines 40, 69 and 85: a stream goes by the id of its
\* client, the second stream of a client by an id of its own
clientId(c) == IF c = SecondStream THEN "c1" ELSE c

SetOf(c) == IF Has(clientToSymbols, clientId(c)) THEN clientToSymbols[clientId(c)] ELSE <<>>
HandlerKeys(s) == {s.handlers[i].sym : i \in 1..Len(s.handlers)}
Without(s, i) == [j \in 1..(Len(s) - 1) |-> IF j < i THEN s[j] ELSE s[j + 1]]

\* The locals of one streamPrices call, lines 85-116, and where its generator stands:
\* "starting" (await reconcile(), line 151), "waiting" (await next(), line 181),
\* "yielded" (line 183), "finishing" (the loop was left), "done", "failed".
Stream0 ==
  [pc |-> "starting", handlers |-> <<>>, made |-> 0, reconciling |-> FALSE, runs |-> <<>>,
   queue |-> <<>>, waiters |-> 0, closed |-> FALSE, out |-> Undefined, returnPending |-> FALSE,
   timer |-> FALSE, teardowns |-> 0, sent |-> 0, got |-> 0, coalesced |-> FALSE,
   lastRun |-> [H |-> {}, D |-> {}, calls |-> <<>>, changed |-> FALSE, ended |-> TRUE, threw |-> FALSE]]

pushFront(s, p) ==
  IF s.waiters > 0
  THEN [s EXCEPT !.waiters = @ - 1, !.out = p, !.pc = "yielded", !.sent = @ + 1, !.got = @ + 1]
  ELSE [s EXCEPT !.queue = <<p>> \o @, !.sent = @ + 1]

\* push, lines 105-108; a resolved waiter lets the generator reach its yield
push(s, p) ==
  IF s.waiters > 0
  THEN [s EXCEPT !.waiters = @ - 1, !.out = p, !.pc = "yielded", !.sent = @ + 1, !.got = @ + 1]
  ELSE [s EXCEPT !.queue = Append(@, p), !.sent = @ + 1]

\* `await next()` of the consume loop, lines 109-113 and 180-183
next(s) ==
  IF Len(s.queue) > 0
  THEN [s EXCEPT !.queue = Tail(@), !.out = Head(s.queue), !.pc = "yielded", !.got = @ + 1]
  ELSE IF s.closed THEN [s EXCEPT !.pc = "finishing"]
  ELSE [s EXCEPT !.waiters = @ + 1, !.pc = "waiting"]

\* push(new PricePoint(...)) for every symbol of the set that has a last price,
\* lines 157-164 and 168-175
RECURSIVE pushLast(_, _, _, _)
pushLast(s, D, i, last) ==
  IF i > Len(D) THEN s
  ELSE pushLast(IF Has(last, D[i]) /\ last[D[i]] # ""
                THEN push(s, [symbol |-> D[i], priceString |-> last[D[i]]])
                ELSE s,
                D, i + 1, last)

\* The first loop of reconcile, lines 119-134, up to its next await: the first
\* symbol of the set without a handler gets one and pool.subscribe is called, which
\* launches the browser when there is none; with no such symbol the second loop is next.
forSymbols(s, c, D, awaited, launched) ==
  LET missing == {i \in 1..Len(D) : D[i] \notin HandlerKeys(s)}
  IN IF missing = {}
     THEN [s EXCEPT !.runs = Append(@, [phase |-> "sweep", sym |-> Undefined, h |-> Undefined,
                                        launching |-> FALSE, awaited |-> awaited])]
     ELSE LET sym == D[CHOOSE i \in missing : \A j \in missing : i <= j]
              h == [client |-> c, n |-> s.made + 1]
          IN [s EXCEPT !.handlers = Append(@, [sym |-> sym, h |-> h]),
                       !.made = @ + 1,
                       !.runs = Append(@, [phase |-> "subscribe", sym |-> sym, h |-> h,
                                           launching |-> ~launched, awaited |-> awaited]),
                       !.lastRun.calls = Append(@, [op |-> "subscribe", sym |-> sym])]

\* the guard of reconcile, line 118
ReconcileGuardNone(s) == FALSE

ReconcileGuard(s) == s.reconciling

\* reconcile, lines 117-119, up to its first await
reconcile(s, c, D, awaited, launched) ==
  IF ReconcileGuard(s) THEN [s EXCEPT !.coalesced = TRUE]
  ELSE forSymbols([s EXCEPT !.reconciling = TRUE, !.coalesced = FALSE,
                            !.lastRun = [H |-> HandlerKeys(s), D |-> {D[i] : i \in 1..Len(D)},
                                         calls |-> <<>>, changed |-> FALSE, ended |-> FALSE,
                                         threw |-> FALSE]],
                  c, D, awaited, launched)

\* the notifier of the client, lines 150 and 55 / 75
notify(s, c, D) ==
  IF c \in clientToNotifier THEN reconcile(s, c, D, FALSE, browser = "launched") ELSE s

\* a change of the client's set while a reconcile of its stream is running
Changed(s) == IF s.lastRun.ended THEN s ELSE [s EXCEPT !.lastRun.changed = TRUE]

\* `clientToNotifier.get(clientId)?.()` of lines 52 and 75 after a change of the
\* set of client c, which every stream of the client shares
Notified(c, D) ==
  [d \in DOMAIN stream |-> IF clientId(d) = c THEN notify(Changed(stream[d]), d, D) ELSE stream[d]]

\* clientToNotifier.set(clientId, ...) and clientToNotifier.delete(clientId)
NotifierSet(c) == {d \in clientToNotifier : clientId(d) # clientId(c)} \cup {c}
NotifierDelete(c) == {d \in clientToNotifier : clientId(d) # clientId(c)}

\* What runs before anything else: the continuation of an await that is already
\* resolved, the rest of a reconcile, the finally of a generator that was returned.
UrgentRun(s) == \E i \in 1..Len(s.runs) : s.runs[i].phase = "sweep" \/ ~s.runs[i].launching
UrgentExit(s) == s.pc = "finishing" \/ (s.pc = "yielded" /\ s.returnPending)
Urgent == \E c \in DOMAIN stream : UrgentRun(stream[c]) \/ UrgentExit(stream[c])

PoolIdle ==
  UNCHANGED <<symbolToPage, symbolToSubs, symbolToIdleTimer, strayTimers, symbolToLast, lastUsed,
              warmUntil, inFlightOpens, queuedJobs, queueByPriority, lastDrain, opens, closing, lastFanout,
              lastPush, now, config, screener>>

\* addTicker, lines 38-65; the wait for a first price that follows changes nothing
AddTicker(c, sym) ==
  LET symbol == toUpperCase(sym)
      D == Append(SetOf(c), symbol)
  IN /\ ~Urgent
     /\ reply' = <<AddTickerResponse(symbol)>>
     /\ IF ~isTicker(symbol) \/ InSeq(SetOf(c), symbol)
        THEN UNCHANGED <<clientToSymbols, symbolRef, stream>>
        ELSE /\ clientToSymbols' = Put(clientToSymbols, c, D)
             /\ symbolRef' = inc(symbolRef, symbol)
             /\ stream' = Notified(c, D)
     /\ UNCHANGED <<browser, clientToNotifier>>
     /\ PoolIdle

\* removeTicker, lines 67-78
RemoveTicker(c, sym) ==
  LET symbol == toUpperCase(sym)
      D == Without(SetOf(c), IndexOf(SetOf(c), symbol))
  IN /\ ~Urgent
     /\ IF ~InSeq(SetOf(c), symbol)
        THEN UNCHANGED <<clientToSymbols, symbolRef, stream>>
        ELSE /\ clientToSymbols' = Put(clientToSymbols, c, D)
             /\ symbolRef' = dec(symbolRef, symbol)
             /\ stream' = Notified(c, D)
     /\ reply' = <<[success |-> TRUE, errorMessage |-> ""]>>
     /\ UNCHANGED <<browser, clientToNotifier>>
     /\ PoolIdle

\* set.add and inc for the initial symbols, lines 94-100
RECURSIVE addInitial(_, _, _)
addInitial(st, syms, i) ==
  IF i > Len(syms) THEN st
  ELSE LET symbol == toUpperCase(syms[i])
       IN addInitial(IF InSeq(st.set, symbol) THEN st
                     ELSE [set |-> Append(st.set, symbol), ref |-> inc(st.ref, symbol)],
                     syms, i + 1)

\* streamPrices, lines 84-151, from the first request of the consumer up to
\* `await reconcile()`
StreamPrices(c, initialSymbols) ==
  LET st == addInitial([set |-> SetOf(c), ref |-> symbolRef], initialSymbols, 1)
  IN /\ ~Urgent
     /\ ~Has(stream, c)
     /\ clientToSymbols' = Put(clientToSymbols, clientId(c), st.set)
     /\ symbolRef' = st.ref
     /\ clientToNotifier' = NotifierSet(c)
     /\ stream' = Put([d \in DOMAIN stream |->
                         IF clientId(d) = clientId(c) /\ st.set # SetOf(c)
                         THEN Changed(stream[d]) ELSE stream[d]],
                      c, reconcile(Stream0, c, st.set, TRUE, browser = "launched"))
     /\ UNCHANGED <<reply, browser>>
     /\ PoolIdle

\* lines 153-181: the generator after `await reconcile()`, up to its next await
afterReconcile(s, D, last) ==
  next(IF Len(D) > 0 THEN [pushLast(s, D, 1, last) EXCEPT !.timer = TRUE] ELSE s)

\* the handlers of lines 120-125, called by the pool for a price of a key
RECURSIVE handle(_, _, _, _)
handle(str, hs, i, p) ==
  IF i > Len(hs) THEN str
  ELSE handle([str EXCEPT ![hs[i].client] = push(@, p)], hs, i + 1, p)

\* `await pool.subscribe(sym, h)` of line 128 returns: ensure() is through, the body
\* of subscribe has run, and the fast path of subscribe has called the handlers of
\* the key when the screener's price was cached; then lines 129-134 and the loop's
\* next symbol
SubscribeReturns(c, i) ==
  /\ Has(stream, c) /\ i \in 1..Len(stream[c].runs)
  /\ LET s == stream[c]
         r == s.runs[i]
     IN /\ r.phase = "subscribe"
        /\ r.launching => ~Urgent
        /\ browser' = "launched"
        /\ Subscribe(r.sym, r.h, {})
        /\ LET str0 == Put(stream, c, [s EXCEPT !.runs = Without(@, i)])
               str1 == IF ScreenerHit(r.sym)
                       THEN handle(str0, SubsOf(symbolToSubs', r.sym), 1,
                                   [symbol |-> r.sym, priceString |-> screenerCache[r.sym].price])
                       ELSE str0
               s1 == IF Has(symbolToLast', r.sym) /\ symbolToLast'[r.sym] # ""
                     THEN push(str1[c], [symbol |-> r.sym, priceString |-> symbolToLast'[r.sym]])
                     ELSE str1[c]
           IN stream' = Put(str1, c, forSymbols(s1, c, SetOf(c), r.awaited, TRUE))
  /\ UNCHANGED <<reply, clientToSymbols, clientToNotifier, symbolRef>>

\* chromium.launch() of ensure rejects, lines 41-43: pool.subscribe rejects, reconcile
\* leaves through its finally, and streamPrices with it when it awaited this reconcile
SubscribeRejects(c, i) ==
  /\ ~Urgent
  /\ Has(stream, c) /\ i \in 1..Len(stream[c].runs)
  /\ LET s == stream[c]
         r == s.runs[i]
     IN /\ r.phase = "subscribe" /\ r.launching
        /\ stream' = Put(stream, c, [s EXCEPT !.runs = Without(@, i),
                                              !.reconciling = FALSE,
                                              !.lastRun.ended = TRUE,
                                              !.lastRun.threw = TRUE,
                                              !.pc = IF r.awaited THEN "failed" ELSE @])
  /\ UNCHANGED <<reply, browser, clientToSymbols, clientToNotifier, symbolRef>>
  /\ PoolIdle

\* pool.unsubscribe for the handlers of a list, and what the service does with each
RECURSIVE release(_, _, _, _)
release(st, hs, i, counted) ==
  IF i > Len(hs) THEN st
  ELSE release([u |-> unsubscribe(st.u, hs[i].sym, hs[i].h),
                ref |-> IF counted THEN dec(st.ref, hs[i].sym) ELSE st.ref,
                calls |-> Append(st.calls, [op |-> "unsubscribe", sym |-> hs[i].sym])],
               hs, i + 1, counted)

StaleAlways(D, e) == TRUE

\* the test of the second loop, line 136
Stale(D, e) == ~InSeq(D, e.sym)

\* The second loop of reconcile and its finally, lines 135-148; the generator goes
\* on from line 153 when it awaited this reconcile
Sweep(c, i) ==
  /\ Has(stream, c) /\ i \in 1..Len(stream[c].runs)
  /\ LET s == stream[c]
         r == s.runs[i]
         D == SetOf(c)
         Gone(e) == Stale(D, e)
         Kept(e) == ~Stale(D, e)
         st == release([u |-> U, ref |-> symbolRef, calls |-> s.lastRun.calls],
                       SelectSeq(s.handlers, Gone), 1, FALSE)
         s1 == [s EXCEPT !.runs = Without(@, i),
                         !.handlers = SelectSeq(@, Kept),
                         !.reconciling = FALSE,
                         !.lastRun.calls = st.calls,
                         !.lastRun.ended = TRUE]
     IN /\ r.phase = "sweep"
        /\ SetU(st.u)
        /\ stream' = Put(stream, c, IF r.awaited THEN afterReconcile(s1, D, symbolToLast) ELSE s1)
  /\ UNCHANGED <<reply, browser, clientToSymbols, clientToNotifier, symbolRef>>
  /\ UNCHANGED <<symbolToPage, symbolToLast, lastUsed, inFlightOpens, queuedJobs, queueByPriority, lastDrain,
                 opens, closing, lastFanout, lastPush, now, config, screener>>

\* the finally of the generator, lines 185-197
Teardown(c) ==
  /\ Has(stream, c)
  /\ LET s == stream[c]
         st == release([u |-> U, ref |-> symbolRef, calls |-> <<>>], s.handlers, 1, TRUE)
     IN /\ UrgentExit(s)
        /\ \A d \in DOMAIN stream : ~UrgentRun(stream[d])
        /\ SetU(st.u)
        /\ symbolRef' = st.ref
        /\ clientToNotifier' = NotifierDelete(c)
        /\ stream' = Put(stream, c, [s EXCEPT !.closed = TRUE, !.pc = "done", !.teardowns = @ + 1])
  /\ UNCHANGED <<reply, browser, clientToSymbols>>
  /\ UNCHANGED <<symbolToPage, symbolToLast, lastUsed, inFlightOpens, queuedJobs, queueByPriority, lastDrain,
                 opens, closing, lastFanout, lastPush, now, config, screener>>

\* the consumer asks for the next value: the generator leaves its yield, line 183
ConsumerNext(c) ==
  /\ ~Urgent
  /\ Has(stream, c) /\ stream[c].pc = "yielded"
  /\ stream' = Put(stream, c, next(stream[c]))
  /\ UNCHANGED <<reply, browser, clientToSymbols, clientToNotifier, symbolRef>>
  /\ PoolIdle

\* the client is gone: the consumer returns the generator, which acts on it at its
\* next yield
ConsumerReturn(c) ==
  /\ ~Urgent
  /\ Has(stream, c) /\ stream[c].pc \in {"starting", "waiting", "yielded"}
  /\ ~stream[c].returnPending
  /\ stream' = Put(stream, c, [stream[c] EXCEPT !.returnPending = TRUE])
  /\ UNCHANGED <<reply, browser, clientToSymbols, clientToNotifier, symbolRef>>
  /\ PoolIdle

\* a page reports a price and the pool calls the handlers subscribed to its key
PagePrice(k, price) ==
  /\ ~Urgent
  /\ NotifyPrice(k, price, {})
  /\ stream' = IF price = "" \/ trim(price) = "" THEN stream
               ELSE handle(stream, SubsOf(symbolToSubs, k), 1, [symbol |-> k, priceString |-> price])
  /\ UNCHANGED <<reply, browser, clientToSymbols, clientToNotifier, symbolRef>>

\* the screener answers a fetch of the fast path and the pool calls the handlers
\* subscribed to the key of the fetch
ScreenerPrice(f, p) ==
  /\ ~Urgent
  /\ ScreenerResolves(f, p, {})
  /\ stream' = IF p = "" THEN stream
               ELSE handle(stream, SubsOf(symbolToSubs, f.sym), 1, [symbol |-> f.sym, priceString |-> p])
  /\ UNCHANGED <<reply, browser, clientToSymbols, clientToNotifier, symbolRef>>

\* the timer of lines 167-176
DelayedPush(c) ==
  /\ ~Urgent
  /\ Has(stream, c) /\ stream[c].timer
  /\ stream' = Put(stream, c, pushLast([stream[c] EXCEPT !.timer = FALSE], SetOf(c), 1, symbolToLast))
  /\ UNCHANGED <<reply, browser, clientToSymbols, clientToNotifier, symbolRef>>
  /\ PoolIdle

\* ------------------------------------------------------------ reads of the pool

RECURSIVE SizeSum(_, _)
SizeSum(subs, keys) ==
  IF keys = {} THEN 0
  ELSE LET k == CHOOSE x \in keys : TRUE IN Len(subs[k]) + SizeSum(subs, keys \ {k})
\* getStats, lines 525-542
getStats ==
  [openPages |-> Len(symbolToPage),
   subscribers |-> SizeSum(symbolToSubs, DOMAIN symbolToSubs),
   idleTimers |-> Cardinality(DOMAIN symbolToIdleTimer),
   lastPrices |-> Cardinality(DOMAIN symbolToLast),
   symbols |-> symbolToPage]

\* A read hands its value back and leaves the service and the page alone.
ReadFrame == UNCHANGED <<browser, clientToSymbols, clientToNotifier, symbolRef, stream, web,
                         openerCalls>>

GetLastPriceTouching(symbol) ==
  /\ reply' = <<[price |-> getLastPrice(symbol)]>>
  /\ lastUsed' = Put(lastUsed, toUpperCase(symbol), now)
  /\ UNCHANGED <<symbolToPage, symbolToSubs, symbolToIdleTimer, strayTimers, symbolToLast,
                 warmUntil, inFlightOpens, queuedJobs, queueByPriority, lastDrain, opens, closing,
                 lastFanout, lastPush, now, config, screener>>
  /\ ReadFrame
\* a call of getLastPrice, lines 514-519
GetLastPrice(symbol) ==
  /\ reply' = <<[price |-> getLastPrice(symbol)]>>
  /\ PoolIdle
  /\ ReadFrame
\* a call of getStats, lines 525-542
GetStats ==
  /\ reply' = <<[stats |-> getStats]>>
  /\ PoolIdle
  /\ ReadFrame

\* ------------------------------------------------------------ web/app/page.tsx

\* The page of the web client. One action is one event handler, timer callback or
\* turn of the for-await loop of run(); React renders between two of them, so a
\* handler reads the state the one before it has set. The page stays mounted
\* between two reloads, so `cancelled` is false in every callback that runs. The
\* calls the page makes to the service are left to the service's own model.

WATCHDOG_MS == 15000
\* The period of the watchdog interval, line 144.
WatchdogPeriod == Min(5000, WATCHDOG_MS \div 3)
\* Fires of the interval after which Date.now() - lastMsgTs is above WATCHDOG_MS;
\* the count stops there.
MaxAge == WATCHDOG_MS \div WatchdogPeriod + 1
\* Attempts that fail in a row.
MaxFailures == 3

\* What the user types into the input; " x " is trimmed to "x".
Texts == {"x", " x ", "Y", "1", ""}
\* sym && /^[A-Z]+USDT?$/.test(sym), line 195
isSymbol(sym) == sym # "" /\ sym \in Keys

\* Array.from(new Set(list)): the first occurrence of each member, in order
RECURSIVE Uniq(_)
Uniq(list) ==
  IF list = <<>> THEN <<>>
  ELSE LET front == Uniq(SubSeq(list, 1, Len(list) - 1))
       IN AddLast(front, list[Len(list)])
RECURSIVE MapUpper(_)
MapUpper(list) ==
  IF list = <<>> THEN <<>> ELSE <<toUpperCase(Head(list))>> \o MapUpper(Tail(list))
RECURSIVE Filter(_, _)
Filter(list, x) ==
  IF list = <<>> THEN <<>>
  ELSE (IF Head(list) = x THEN <<>> ELSE <<Head(list)>>) \o Filter(Tail(list), x)
\* the restore effect, lines 36-47: what it leaves in `symbols`
restore(raw) == Uniq(Filter(MapUpper(raw), ""))

\* The page after its mount: the restore effect has run on what is saved, and
\* run() has gone up to the first turn of its for-await.
Web0(saved) ==
  /\ symbols = restore(saved)
  /\ localStorage = saved
  /\ addRecent = FALSE
  /\ status = "connected"
  /\ retryMs = 1000
  /\ sinceMsg = 0
  /\ reconnectRequested = FALSE
  /\ watchdog = TRUE
  /\ attempt = [pc |-> "stream", connected |-> FALSE, failures |-> 0, delay |-> 0]
  /\ lastAdd = [outcome |-> "none", restored |-> (saved # <<>>)]

\* The page touches no state of the server.
ServerIdle == PoolIdle /\ UNCHANGED <<steps, service, openerCalls>>

includesNever(list, sym) == FALSE
includes(list, sym) == InSeq(list, sym)

\* addTicker of the page, lines 193-201, on the text of the input
addTicker(text) ==
  LET sym == toUpperCase(trim(text))
      outcome == IF ~isSymbol(sym) THEN "invalid"
                 ELSE IF includes(symbols, sym) THEN "duplicate"
                 ELSE IF addRecent THEN "debounced"
                 ELSE "added"
  IN /\ lastAdd' = [lastAdd EXCEPT !.outcome = outcome]
     /\ IF outcome = "added"
          THEN symbols' = Append(symbols, sym) /\ addRecent' = TRUE
          ELSE UNCHANGED <<symbols, addRecent>>
     /\ UNCHANGED <<localStorage, status, retryMs, sinceMsg, reconnectRequested, watchdog, attempt>>
     /\ ServerIdle

\* 300 ms have passed since the last add that went through
DebounceElapses ==
  /\ addRecent
  /\ addRecent' = FALSE
  /\ UNCHANGED <<symbols, localStorage, status, retryMs, sinceMsg, reconnectRequested,
                 watchdog, attempt, lastAdd>>
  /\ ServerIdle

\* removeTicker of the page, lines 230-235
removeTicker(sym) ==
  /\ InSeq(symbols, sym)
  /\ symbols' = Filter(symbols, sym)
  /\ UNCHANGED <<localStorage, addRecent, status, retryMs, sinceMsg, reconnectRequested,
                 watchdog, attempt, lastAdd>>
  /\ ServerIdle

\* the timer of the save effect, lines 51-58
Save ==
  /\ localStorage # symbols
  /\ localStorage' = symbols
  /\ UNCHANGED <<symbols, addRecent, status, retryMs, sinceMsg, reconnectRequested,
                 watchdog, attempt, lastAdd>>
  /\ ServerIdle

\* scheduleRetry, lines 110-122, and the finally of run(), lines 175-180
scheduleRetry(connected) ==
  /\ status' = "retrying"
  /\ retryMs' = Min(retryMs * 2, 10000)
  /\ watchdog' = FALSE
  /\ attempt' = [pc |-> "timer", connected |-> connected,
                 failures |-> IF connected THEN 0 ELSE attempt.failures + 1,
                 delay |-> retryMs]

\* run(), lines 125-148, from the timer of scheduleRetry: client.streamPrices hands
\* back the iterable without having sent the request
RetryTimerFires ==
  /\ attempt.pc = "timer"
  /\ status' = "connected"
  /\ reconnectRequested' = FALSE
  /\ retryMs' = 1000
  /\ sinceMsg' = 0
  /\ watchdog' = TRUE
  /\ attempt' = [attempt EXCEPT !.pc = "stream", !.connected = FALSE]
  /\ UNCHANGED <<symbols, localStorage, addRecent, lastAdd>>
  /\ ServerIdle

\* the callback of the interval, lines 138-144
WatchdogFires ==
  /\ watchdog
  /\ sinceMsg' = Min(sinceMsg + 1, MaxAge)
  /\ reconnectRequested' = (reconnectRequested \/ sinceMsg' * WatchdogPeriod > WATCHDOG_MS)
  /\ UNCHANGED <<symbols, localStorage, addRecent, status, retryMs, watchdog, attempt, lastAdd>>
  /\ ServerIdle

\* one turn of the for-await, lines 149-168: a message of the stream
Message ==
  /\ attempt.pc = "stream"
  /\ IF reconnectRequested
       THEN scheduleRetry(TRUE) /\ UNCHANGED sinceMsg
       ELSE /\ sinceMsg' = 0
            /\ attempt' = [attempt EXCEPT !.connected = TRUE, !.failures = 0]
            /\ UNCHANGED <<status, retryMs, watchdog>>
  /\ UNCHANGED <<symbols, localStorage, addRecent, reconnectRequested, lastAdd>>
  /\ ServerIdle

\* the stream ends without error, lines 169-170
StreamEnds ==
  /\ attempt.pc = "stream"
  /\ scheduleRetry(TRUE)
  /\ UNCHANGED <<symbols, localStorage, addRecent, sinceMsg, reconnectRequested, lastAdd>>
  /\ ServerIdle

\* the request or the stream fails, lines 171-174: no server, a connection lost
StreamFails ==
  /\ attempt.pc = "stream"
  /\ attempt.connected \/ attempt.failures < MaxFailures
  /\ scheduleRetry(attempt.connected)
  /\ UNCHANGED <<symbols, localStorage, addRecent, sinceMsg, reconnectRequested, lastAdd>>
  /\ ServerIdle

\* the user reloads the page: it mounts again on what is saved
Reload ==
  /\ symbols' = restore(localStorage)
  /\ addRecent' = FALSE
  /\ status' = "connected"
  /\ retryMs' = 1000
  /\ sinceMsg' = 0
  /\ reconnectRequested' = FALSE
  /\ watchdog' = TRUE
  /\ attempt' = [pc |-> "stream", connected |-> FALSE, failures |-> 0, delay |-> 0]
  /\ lastAdd' = [outcome |-> "none", restored |-> (localStorage # <<>>)]
  /\ UNCHANGED localStorage
  /\ ServerIdle

\* ------------------------------------------------------------ the clock

Tick ==
  /\ now < MaxTime
  /\ now' = now + 1
  /\ UNCHANGED <<symbolToPage, symbolToSubs, symbolToIdleTimer, strayTimers, symbolToLast, lastUsed,
                 warmUntil, inFlightOpens, queuedJobs, queueByPriority, lastDrain, opens, closing, lastFanout, lastPush, config, screener>>

\* ------------------------------------------------------------ specification

Pool0 ==
  /\ symbolToPage = <<>>
  /\ symbolToSubs = EmptyMap
  /\ symbolToIdleTimer = EmptyMap
  /\ strayTimers = {}
  /\ symbolToLast = EmptyMap
  /\ lastUsed = EmptyMap
  /\ warmUntil = EmptyMap
  /\ inFlightOpens = 0
  /\ queuedJobs = EmptyMap
  /\ queueByPriority = <<<<>>, <<>>, <<>>>>
  /\ lastDrain = [cancelled |-> {}, timedOut |-> {}]
  /\ opens = EmptyBag
  /\ closing = EmptyBag
  /\ lastFanout = [threw |-> Undefined, missed |-> <<>>]
  /\ screenerCache = EmptyMap
  /\ screenerFetches = EmptyBag
  /\ lastPush = EmptyMap
  /\ now = 0
  /\ steps = 0
  /\ openerCalls = [k \in Keys |-> 0]

\* No client yet; the browser is launched or not.
Service0(launched) ==
  /\ browser = (IF launched THEN "launched" ELSE "none")
  /\ clientToSymbols = EmptyMap
  /\ clientToNotifier = {}
  /\ symbolRef = EmptyMap
  /\ stream = EmptyMap
  /\ reply = <<>>

\* With a budget, the calls and the clock ticks of a run are counted.
Counted(budget) ==
  IF budget THEN steps < MaxSteps /\ steps' = steps + 1 ELSE UNCHANGED steps

\* A caller that unsubscribes only a listener it has subscribed.
Registered(symbol, onData) == InSeq(SubsOf(symbolToSubs, toUpperCase(symbol)), onData)

\* Callers passing symbols of S and listeners of L; the listeners of a set in T throw.
Calls(S, L, T, strict, budget) ==
  \/ (\E s \in S, l \in L, bad \in T : Subscribe(s, l, bad)) /\ Counted(budget)
  \/ (\E s \in S, l \in L : (strict => Registered(s, l)) /\ Unsubscribe(s, l)) /\ Counted(budget)

Timers ==
  \/ (\E k \in Keys : IdleTimerFires(k)) /\ UNCHANGED steps
  \/ (\E t \in strayTimers : StrayTimerFires(t)) /\ UNCHANGED steps
  \/ (\E k \in Keys : ClosePageDone(k)) /\ UNCHANGED steps

Opens ==
  \/ (\E o \in BagToSet(opens) : EvictDone(o)) /\ UNCHANGED steps
  \/ (\E o \in BagToSet(opens) : OpenSucceeds(o)) /\ UNCHANGED steps
  \/ (\E o \in BagToSet(opens) : OpenFails(o)) /\ UNCHANGED steps

Clock(budget) == Tick /\ Counted(budget)

\* Pages reporting prices of P, with the listeners of a set in T throwing when called.
Pushes(P, T) ==
  \/ (\E k \in Keys, p \in P, bad \in T : NotifyPrice(k, p, bad)) /\ UNCHANGED steps
  \/ (\E k \in Keys, line \in ConsoleLines, bad \in T : ConsolePrice(k, line, bad)) /\ UNCHANGED steps

\* The screener page answering the fetches of the fast path.
Screener(T) ==
  (\E f \in BagToSet(screenerFetches), p \in screenerRows \cup {""}, bad \in T :
     ScreenerResolves(f, p, bad)) /\ UNCHANGED steps

\* One symbol in two spellings, two listeners that may throw, any number of calls;
\* the screener page has no row for the symbol.
Init == Pool0 /\ Service0(TRUE) /\ Web0(<<>>) /\ openConcurrency = 2 /\ maxPages = 1 /\ screenerRows = {}
Next ==
  /\ \/ Calls(OneSymbol, Listeners, {{}}, FALSE, FALSE) \/ Timers \/ Opens \/ Clock(FALSE)
     \/ Pushes(Prices, SUBSET Listeners)
  /\ UNCHANGED <<service, web, openerCalls>>
Spec == Init /\ [][Next]_vars

\* Three symbols under a capacity of two pages: one listener, callers that
\* unsubscribe what they subscribed, a bounded number of calls and ticks, silent
\* pages and no screener rows.
InitCap == Pool0 /\ Service0(TRUE) /\ Web0(<<>>) /\ openConcurrency = 2 /\ maxPages = 2 /\ screenerRows = {}
NextCap ==
  /\ Calls(Keys, {"L1"}, {{}}, TRUE, TRUE) \/ Timers \/ Opens \/ Clock(TRUE)
  /\ UNCHANGED <<service, web, openerCalls>>
SpecCap == InitCap /\ [][NextCap]_vars

\* One symbol with a row on the screener page: the fast path of subscribe answers,
\* next to the pushes of the symbol's own page; a bounded number of calls and ticks.
InitScreener == Pool0 /\ Service0(TRUE) /\ Web0(<<>>) /\ openConcurrency = 2 /\ maxPages = 1 /\ screenerRows = {"100"}
NextScreener ==
  /\ \/ Calls({"X"}, Listeners, SUBSET Listeners, TRUE, TRUE) \/ Timers \/ Opens \/ Clock(TRUE)
     \/ Pushes({"101 "}, {{}}) \/ Screener(SUBSET Listeners)
  /\ UNCHANGED <<service, web, openerCalls>>
SpecScreener == InitScreener /\ [][NextScreener]_vars

\* Three symbols and one open at a time, so that two keys can wait in the queue
\* behind an open: otherwise as under the capacity of two pages.
InitQueue == Pool0 /\ Service0(TRUE) /\ Web0(<<>>) /\ openConcurrency = 1 /\ maxPages = 2 /\ screenerRows = {}
NextQueue ==
  /\ Calls(Keys, {"L1"}, {{}}, TRUE, TRUE) \/ Timers \/ Opens \/ Clock(TRUE)
  /\ UNCHANGED <<service, web, openerCalls>>
SpecQueue == InitQueue /\ [][NextQueue]_vars

\* Two symbols under a capacity of one page and one open at a time.
InitPair == Pool0 /\ Service0(TRUE) /\ Web0(<<>>) /\ openConcurrency = 1 /\ maxPages = 1 /\ screenerRows = {}
NextPair ==
  /\ Calls({"X", "Y"}, {"L1"}, {{}}, TRUE, TRUE) \/ Timers \/ Opens \/ Clock(TRUE)
  /\ UNCHANGED <<service, web, openerCalls>>
SpecPair == InitPair /\ [][NextPair]_vars

\* The clients of C calling the service for the symbols of S, with the streams of C
\* started on a symbol list of I; the calls and the prices are counted, and a call that
\* would change nothing is not made.
Service(C, S, I, P) ==
  \/ (\E c \in C \cap Clients, s \in S :
        ~InSeq(SetOf(c), toUpperCase(s)) /\ AddTicker(c, s)) /\ Counted(TRUE)
  \/ (\E c \in C \cap Clients, s \in S :
        InSeq(SetOf(c), toUpperCase(s)) /\ RemoveTicker(c, s)) /\ Counted(TRUE)
  \/ (\E c \in C, syms \in I : StreamPrices(c, syms)) /\ Counted(TRUE)
  \/ (\E c \in C : ConsumerNext(c)) /\ UNCHANGED steps
  \/ (\E c \in C : ConsumerReturn(c)) /\ UNCHANGED steps
  \/ (\E c \in C : DelayedPush(c)) /\ UNCHANGED steps
  \/ (\E k \in Keys, p \in P : PagePrice(k, p)) /\ Counted(TRUE)

\* What the service has started: subscribes through or rejected, the rest of a
\* reconcile, the finally of a generator.
Continuations(C) ==
  \/ (\E c \in C, i \in 1..2 : SubscribeReturns(c, i)) /\ UNCHANGED steps
  \/ (\E c \in C, i \in 1..2 : SubscribeRejects(c, i)) /\ UNCHANGED steps
  \/ (\E c \in C, i \in 1..2 : Sweep(c, i)) /\ UNCHANGED steps
  \/ (\E c \in C : Teardown(c)) /\ UNCHANGED steps

\* One client on two symbols and a string that is no ticker, no browser at the
\* start, pages that load for as long as the run lasts and report their prices
\* meanwhile.
InitService == Pool0 /\ Service0(FALSE) /\ Web0(<<>>) /\ openConcurrency = 2 /\ maxPages = 2 /\ screenerRows = {}
NextService ==
  /\ \/ Service(Clients, {"x", "Y", "1"}, {<<>>, <<"X">>, <<"X", "Y">>}, {"100"})
     \/ Continuations(Clients)
  /\ UNCHANGED <<web, openerCalls>>
SpecService == InitService /\ [][NextService]_vars

\* Two symbols, one of them in lower case, under a capacity of one page and one
\* open at a time, pages that report a price, and callers that read the last
\* price of a symbol, of a string that is no symbol, and the stats; the calls, the
\* reads, the prices and the ticks are counted.
InitReads == Pool0 /\ Service0(TRUE) /\ Web0(<<>>) /\ openConcurrency = 1 /\ maxPages = 1 /\ screenerRows = {}
Reads(S) ==
  \/ (\E s \in S : GetLastPrice(s)) /\ Counted(TRUE)
  \/ GetStats /\ Counted(TRUE)
NextReads ==
  \/ /\ \/ Calls({"x", "Y"}, {"L1"}, {{}}, TRUE, TRUE) \/ Timers \/ Opens \/ Clock(TRUE)
        \/ (\E k \in Keys : NotifyPrice(k, "100", {})) /\ Counted(TRUE)
     /\ UNCHANGED <<service, web, openerCalls>>
  \/ Reads({"x", "Y", "1"})
SpecReads == InitReads /\ [][NextReads]_vars

\* One caller that subscribes the symbols of ManySymbols one after another, one
\* open at a time, pages that load: the opens it asks for pile up in the queue.
InitFull == Pool0 /\ Service0(TRUE) /\ Web0(<<>>) /\ openConcurrency = 1 /\ maxPages = 30 /\ screenerRows = {}
SubscribeNext ==
  \E i \in 1..Len(ManySymbols) :
    /\ i = Cardinality(DOMAIN symbolToSubs) + 1
    /\ Subscribe(ManySymbols[i], "L1", {})
NextFull ==
  /\ \/ SubscribeNext /\ UNCHANGED steps
     \/ (\E o \in BagToSet(opens) : OpenSucceeds(o)) /\ UNCHANGED steps
  /\ UNCHANGED <<service, web, openerCalls>>
SpecFull == InitFull /\ [][NextFull]_vars

\* The page alone: a user who adds, removes and reloads, and a stream that
\* delivers, ends or fails.
InitWeb == Pool0 /\ Service0(TRUE) /\ Web0(<<>>) /\ openConcurrency = 2 /\ maxPages = 2 /\ screenerRows = {}
NextWeb ==
  \/ \E text \in Texts : addTicker(text)
  \/ DebounceElapses
  \/ \E sym \in Keys : removeTicker(sym)
  \/ Save
  \/ Reload
  \/ RetryTimerFires
  \/ WatchdogFires
  \/ Message
  \/ StreamEnds
  \/ StreamFails
SpecWeb == InitWeb /\ [][NextWeb]_vars
\* The timers of the page fire; whether the stream delivers, ends or fails is up
\* to the server and the network.
SpecWebLive == SpecWeb /\ WF_vars(RetryTimerFires) /\ WF_vars(WatchdogFires)

\* ------------------------------------------------------------ properties

\* openPage calls not settled for a key
OpensOf(k) == BagCardinality([o \in {r \in DOMAIN opens : r.sym = k} |-> opens[o]])
\* 1 when the table holds a page for the key
PagesOf(k) == IF InSeq(symbolToPage, k) THEN 1 ELSE 0

\* C1: at every instant a key has at most one page open or being opened, whatever
\* the subscribes made for it while it is queued or in flight.
NoDoubleOpen == \A k \in Keys : PagesOf(k) + OpensOf(k) <= 1

\* C3: the opens executing concurrently never exceed openConcurrency, and the
\* counter inFlightOpens is exactly their number and never negative.
InFlightCeiling ==
  /\ BagCardinality(opens) <= openConcurrency
  /\ inFlightOpens = BagCardinality(opens)
  /\ inFlightOpens >= 0
\* The ceiling is reached while a job waits in the queue behind it.
CeilingReached == inFlightOpens = openConcurrency /\ totalQueued(Q) > 0 /\ now > 0

\* openPage call o was started by this step: by the drainQueue of a subscribe (the
\* one step that raises the counter), or by the one that follows the settling of
\* another open (which leaves the counter as it was).
StartedIn(o) ==
  \/ /\ inFlightOpens' = inFlightOpens + 1
     /\ CopiesIn(o, opens') > CopiesIn(o, opens)
  \/ /\ inFlightOpens' = inFlightOpens /\ inFlightOpens > 0
     /\ UNCHANGED <<symbolToSubs, symbolToIdleTimer, strayTimers, warmUntil, closing, now>>
     /\ \E r \in BagToSet(opens) :
          /\ CopiesIn(o, opens') > CopiesIn(o, opens (-) SetToBag({r}))
          /\ OpenSucceeds(r) \/ OpenFails(r)
LastUsedOf(used, k) == IF Has(used, k) THEN used[k] ELSE 0
\* open keys without a subscriber
IdleKeys(pages, subs) == {k \in Keys : InSeq(pages, k) /\ NoSubs(subs, k)}

LruVictim ==
  [][\A o \in BagToSet(opens') :
        StartedIn(o) /\ o.phase = "evicting" =>
          /\ o.victim \in IdleKeys(symbolToPage', symbolToSubs')
          /\ \A u \in IdleKeys(symbolToPage', symbolToSubs') :
                LastUsedOf(lastUsed', o.victim) <= LastUsedOf(lastUsed', u)]_vars
\* An eviction is under way whose victim was chosen over a more recently used
\* unsubscribed page.
OlderVictimChosen ==
  \E o \in BagToSet(opens) :
    /\ o.phase = "evicting"
    /\ o.victim \in IdleKeys(symbolToPage, symbolToSubs)
    /\ \E u \in IdleKeys(symbolToPage, symbolToSubs) :
          LastUsedOf(lastUsed, u) > LastUsedOf(lastUsed, o.victim)

\* C5: when the closePage of an eviction removes its victim from the table, the
\* victim has no subscribers.
EvictOnlyUnsubscribed ==
  [][\A o \in BagToSet(opens) :
        EvictDone(o) /\ InSeq(symbolToPage, o.victim) => NoSubs(symbolToSubs, o.victim)]_vars

\* The key is subscribed, and has been since before the deadline d of a timer.
SubscribedSince(k, d) ==
  ~NoSubs(symbolToSubs, k) /\ Has(lastUsed, k) /\ lastUsed[k] < d
\* idle-close timers pending for a key
PendingTimers(k) ==
  (IF Has(symbolToIdleTimer, k) /\ symbolToIdleTimer[k] = "live" THEN 1 ELSE 0)
    + Cardinality({t \in strayTimers : t.sym = k})

\* C6: after the last listener of an open key is unsubscribed and a listener is
\* subscribed again before the idle window ends, no idle-close fires for the key
\* while it stays subscribed.
NoIdleCloseWhileResubscribed ==
  [][\A k \in Keys :
        InSeq(symbolToPage, k) =>
          /\ ~(IdleTimerFires(k) /\ SubscribedSince(k, warmUntil[k]))
          /\ \A t \in strayTimers :
                ~(t.sym = k /\ StrayTimerFires(t) /\ SubscribedSince(k, t.deadline))]_vars

\* C7: a key has at most one idle-close timer pending, and none while it has a
\* subscriber.
OneTimerPerKey ==
  \A k \in Keys :
    /\ PendingTimers(k) <= 1
    /\ ~NoSubs(symbolToSubs, k) => PendingTimers(k) = 0

\* C8: once a key's last listener is gone, its idle window has ended with no
\* re-subscribe, and nothing of the key is pending any more (timer, queued job,
\* open in flight, close in progress), the key's page is out of the table.
IdleKeyClosed ==
  \A k \in Keys :
    ( /\ Has(symbolToSubs, k) /\ NoSubs(symbolToSubs, k)
      /\ Has(warmUntil, k) /\ now >= warmUntil[k]
      /\ PendingTimers(k) = 0
      /\ ~Has(queuedJobs, k)
      /\ OpensOf(k) = 0
      /\ ~BagIn(k, closing)
      /\ \A o \in BagToSet(opens) : o.victim # k )
    => ~InSeq(symbolToPage, k)

\* C9: a push calls every listener that is in the key's set when it is processed.
FanoutComplete == lastFanout.missed = <<>>

\* C10: a listener that throws does not keep the listeners after it from being
\* called for the same push.
ListenerIsolation == lastFanout.threw # Undefined => Len(lastFanout.missed) = 0

\* C11: getLastPrice of a key returns the value of the last push of the key's page
\* that was processed, whatever subscribes and unsubscribes were made around it.
LastValueIsLastPush ==
  \A s \in Symbols :
    Has(lastPush, toUpperCase(s)) => getLastPrice(s) = lastPush[toUpperCase(s)]

\* C12: unsubscribe of a listener that is not in the key's set (unknown key, empty
\* set, or other listeners only) leaves subscriber sets, warm-until deadlines,
\* idle timers, the queue and the open pages as they are.
UnsubscribeUnregisteredNoOp ==
  [][\A s \in Symbols, l \in Listeners :
        Unsubscribe(s, l) /\ ~Registered(s, l) =>
          UNCHANGED <<symbolToSubs, warmUntil, symbolToIdleTimer, strayTimers, queuedJobs,
                      queueByPriority, inFlightOpens, opens, symbolToPage>>]_vars

\* The calls of an operation for a key in the record of a reconcile.
CallsOf(calls, op, k) == Cardinality({i \in 1..Len(calls) : calls[i].op = op /\ calls[i].sym = k})

\* a reconcile that ran to its end with the set it started with
Completed(r) == r.ended /\ ~r.threw /\ ~r.changed

\* C13: a reconcile that started with handlers for the keys H and a desired set D,
\* and ran to its end with that set, has called pool.subscribe exactly once for each
\* key of D \ H, pool.unsubscribe exactly once for each key of H \ D, and the pool
\* for no other key.
ReconcileIsDiff ==
  \A c \in DOMAIN stream :
    LET r == stream[c].lastRun
    IN Completed(r) =>
         \A k \in Keys :
           /\ CallsOf(r.calls, "subscribe", k) = (IF k \in r.D \ r.H THEN 1 ELSE 0)
           /\ CallsOf(r.calls, "unsubscribe", k) = (IF k \in r.H \ r.D THEN 1 ELSE 0)

\* a reconcile has subscribed one key and unsubscribed another, and left a third alone
DiffBothWays ==
  \E c \in DOMAIN stream :
    LET r == stream[c].lastRun
    IN Completed(r) /\ r.D \ r.H # {} /\ r.H \ r.D # {}

\* a reconcile has subscribed two keys
DiffSubscribes ==
  \E c \in DOMAIN stream :
    LET r == stream[c].lastRun
    IN Completed(r) /\ Cardinality(r.D \ r.H) = 2 /\ Len(r.calls) = 2

\* C14: a stream has at most one reconcile body under way, the one that holds the
\* flag: a reconcile called meanwhile starts no body and calls the pool for nothing,
\* and the flag is down again once the body has finished or thrown.
OneReconcileAtATime ==
  \A c \in DOMAIN stream :
    /\ Len(stream[c].runs) <= 1
    /\ stream[c].reconciling <=> Len(stream[c].runs) = 1
    /\ stream[c].lastRun.ended <=> ~stream[c].reconciling

\* a reconcile was called while another was suspended in pool.subscribe
ReconcileCoalesced ==
  \E c \in DOMAIN stream :
    /\ stream[c].coalesced
    /\ Len(stream[c].runs) = 1 /\ stream[c].runs[1].phase = "subscribe"

\* The listeners a stream has created.
ListenersOf(c) == {[client |-> c, n |-> j] : j \in 1..stream[c].made}

\* C15: once the teardown of a stream has run and no reconcile of the stream is
\* under way, no listener the stream created is in the subscriber set of any key.
TeardownReleasesAll ==
  \A c \in DOMAIN stream :
    stream[c].teardowns > 0 /\ stream[c].runs = <<>> =>
      \A k \in DOMAIN symbolToSubs, l \in ListenersOf(c) : ~InSeq(symbolToSubs[k], l)

\* a teardown has released the listeners of two keys
TwoReleased ==
  \E c \in DOMAIN stream :
    /\ stream[c].teardowns > 0 /\ stream[c].runs = <<>>
    /\ Len(stream[c].handlers) = 2
    /\ \A i \in 1..2 : Has(symbolToSubs, stream[c].handlers[i].sym)

\* C16: a stream whose generator has ended, by the return of its consumer or by an
\* exception, has run its teardown, and no stream runs its teardown twice.
TeardownOnExit ==
  \A c \in DOMAIN stream :
    /\ stream[c].teardowns <= 1
    /\ stream[c].pc \in {"done", "failed"} => stream[c].teardowns = 1

\* The clients whose set holds a key.
Interested(k) == {c \in DOMAIN clientToSymbols : InSeq(clientToSymbols[c], k)}

\* C17: a key has no reference count when no client has it in its set, and
\* otherwise a count equal to the number of clients that have it in their sets;
\* no stored count is zero or negative.
RefCountInvariant ==
  \A k \in Keys :
    IF Interested(k) = {} THEN ~Has(symbolRef, k)
    ELSE Has(symbolRef, k) /\ symbolRef[k] = Cardinality(Interested(k)) /\ symbolRef[k] > 0

IsPrefix(a, b) == Len(a) <= Len(b) /\ SubSeq(b, 1, Len(a)) = a

\* C18: in every step of a stream, the events it pushes go behind the events that
\* wait in the queue, the consumer receives at most one event, which is the oldest
\* of them all, and no event disappears; the queue and the waiter list are never
\* both non-empty.
OutwardFifo ==
  [][\A c \in (DOMAIN stream) \cap (DOMAIN stream') :
       LET s == stream[c]
           t == stream'[c]
           pushed == t.sent - s.sent
           all == IF t.got = s.got THEN t.queue ELSE <<t.out>> \o t.queue
       IN /\ t.got \in {s.got, s.got + 1}
          /\ IsPrefix(s.queue, all)
          /\ Len(all) = Len(s.queue) + pushed
          /\ ~(Len(t.queue) > 0 /\ t.waiters > 0)]_vars

\* the consumer has received an event while two different ones wait in the queue
QueueHoldsTwo ==
  \E c \in DOMAIN stream :
    /\ stream[c].got > 0
    /\ Len(stream[c].queue) >= 2
    /\ stream[c].queue[1] # stream[c].queue[2]

\* The class of a key: 0 Hot, 1 Warm, 2 Cold.
ClassOf(k) == computePriority(Ctx, k)

\* an open of the key starts in this step
Starts(k) == OpensOf(k)' > OpensOf(k)

\* C19: when the drain loop starts the job of a key, no job that stays in the queue
\* is of a more urgent class by its subscribers and idle window at that time, and
\* none of the same class was enqueued earlier.
PriorityAtDequeue ==
  [][\A k \in Keys : \A j \in Keys \ {k} :
       Has(queuedJobs, k) /\ Has(queuedJobs, j) /\ Has(queuedJobs', j) /\ Starts(k) =>
         /\ ClassOf(j)' >= ClassOf(k)'
         /\ ClassOf(j)' = ClassOf(k)' => queuedJobs[j].enqueuedAt >= queuedJobs[k].enqueuedAt]_vars

Occurrences(b, k) == Cardinality({i \in 1..Len(b) : b[i] = k})
BucketOf(p) == queueByPriority[p + 1]

\* C20: a key is at most once in the three buckets together; the keys in the
\* buckets are the keys of queuedJobs; each key is in the bucket of its job's
\* priority. A key subscribed again while it is queued is still there once, as Hot.
QueueDeduplicated ==
  \A k \in Keys :
    LET n == Occurrences(BucketOf(0), k) + Occurrences(BucketOf(1), k) + Occurrences(BucketOf(2), k)
    IN /\ n <= 1
       /\ n = 1 <=> Has(queuedJobs, k)
       /\ Has(queuedJobs, k) => Occurrences(BucketOf(queuedJobs[k].priority), k) = 1
       /\ Has(queuedJobs, k) /\ ClassOf(k) = 0 => queuedJobs[k].priority = 0

\* a key was subscribed again after it was queued, behind another queued key
QueuedKeyResubscribed ==
  \E k \in Keys :
    /\ Has(queuedJobs, k) /\ Has(lastUsed, k)
    /\ lastUsed[k] > queuedJobs[k].enqueuedAt
    /\ totalQueued(Q) = 2

SubscribeNeverRejects == \A c \in DOMAIN stream : ~stream[c].lastRun.threw

BackoffDoubles ==
  attempt.pc = "timer" /\ attempt.failures > 0 =>
    attempt.delay = Min(1000 * 2^(attempt.failures - 1), 10000)

\* no message for more than WATCHDOG_MS on the stream the page is consuming
Stalled == attempt.pc = "stream" /\ sinceMsg * WatchdogPeriod > WATCHDOG_MS
\* C25: a stream that has stalled leads to a retry being scheduled or a new stream
\* being opened, whether or not the stalled stream delivers anything more.
WatchdogRestarts == Stalled ~> (attempt.pc = "timer" \/ sinceMsg = 0)

\* C27: after any adds, removes, saves and reloads the list of the page holds each
\* normalized symbol at most once, and nothing that is no ticker symbol.
UiNoDuplicates ==
  /\ \A i \in 1..Len(symbols) : \A j \in 1..Len(symbols) :
        i # j => toUpperCase(trim(symbols[i])) # toUpperCase(trim(symbols[j]))
  /\ \A i \in 1..Len(symbols) : symbols[i] \in Keys
\* on a list restored from localStorage, a second add of a symbol inside the
\* debounce window of its first add was dropped
SecondAddDropped ==
  lastAdd = [outcome |-> "duplicate", restored |-> TRUE] /\ addRecent /\ Len(symbols) = 2

\* C26: a call of getLastPrice or getStats, for a key the pool knows or not, leaves
\* the subscriber sets, the queue, the in-flight count and the opens, the table of
\* pages, the last values, lastUsed and the timers as they are.
ReadsChangeNothing ==
  [][(\E s \in Symbols \cup NotTickers : GetLastPrice(s)) \/ GetStats =>
       UNCHANGED <<symbolToSubs, queuedJobs, queueByPriority, inFlightOpens, opens, closing,
                   symbolToPage, symbolToLast, lastUsed, warmUntil, symbolToIdleTimer,
                   strayTimers, screenerCache, screenerFetches>>]_vars
\* a price was read for a key that has no page while another key's open is in
\* flight and the key's own job waits in the queue
ReadWhileQueued ==
  /\ reply = <<[price |-> "100"]>>
  /\ inFlightOpens > 0
  /\ \E k \in Keys : getLastPrice(k) = "100" /\ Has(queuedJobs, k) /\ ~InSeq(symbolToPage, k)

\* the job the key had in the queue was taken out of it by this step
Dequeued(k) ==
  Has(queuedJobs, k) /\ (Has(queuedJobs', k) => queuedJobs'[k] # queuedJobs[k])

\* this step is the settling of an open of the key
Settled(k) == \E r \in BagToSet(opens) : r.sym = k /\ (OpenSucceeds(r) \/ OpenFails(r))
\* an open of the key starts in this step, be it the one in which another settles
OpenStarted(k) == OpensOf(k)' + (IF Settled(k) THEN 1 ELSE 0) > OpensOf(k)

\* C29: a job whose key is Cold (no subscriber, outside its idle window) when the
\* drain loop takes it out of the queue is cancelled: it is gone without an open of
\* the key having started. A job whose key is Hot or Warm then is not cancelled:
\* its open starts, or it is queued afresh, or the key has its page already.
ColdJobsCancelled ==
  [][\A k \in Keys :
       Dequeued(k) =>
         IF ClassOf(k)' = 2
         THEN k \in lastDrain'.cancelled /\ ~OpenStarted(k) /\ ~Has(queuedJobs', k)
         ELSE /\ k \notin lastDrain'.cancelled
              /\ OpenStarted(k) \/ Has(queuedJobs', k) \/ InSeq(symbolToPage', k)]_vars
\* the job of a key was cancelled while another key's job, behind it in the queue,
\* was started by the same run of the loop
ColdJobCancelled ==
  \E k \in lastDrain.cancelled : \E j \in Keys \ {k} :
    /\ NoSubs(symbolToSubs, k) /\ ~Has(queuedJobs, k) /\ OpensOf(k) = 0
    /\ OpensOf(j) = 1 /\ inFlightOpens = 1

\* the job of the key is taken out of the queue by this step, the key being Hot or
\* Warm, after more than the queue timeout in the queue
TimedOut(k) ==
  /\ Dequeued(k) /\ ClassOf(k)' < 2
  /\ now - queuedJobs[k].enqueuedAt > queueTimeoutMs
\* the key has one entry in the queue, of priority 0 and enqueued now
QueuedAfresh(k) ==
  /\ Has(queuedJobs', k) /\ queuedJobs'[k] = [priority |-> 0, enqueuedAt |-> now']
  /\ Occurrences(BucketOf(0)', k) = 1
  /\ Occurrences(BucketOf(1)', k) + Occurrences(BucketOf(2)', k) = 0

\* C30, as the spec states it: a job dequeued after more than the queue timeout is
\* not started in that step; it is queued afresh, once, at priority 0.
TimedOutJobRequeued ==
  [][\A k \in Keys : TimedOut(k) => ~OpenStarted(k) /\ QueuedAfresh(k)]_vars

\* C30, amended: a job dequeued after more than the queue timeout is re-enqueued
\* at priority 0 and the queue is drained again at once, so after the step the key
\* is queued afresh, once, or its open has started and it has no queue entry; a
\* key whose page is in the table already is not enqueued again.
TimedOutJobRetried ==
  [][\A k \in Keys :
       TimedOut(k) =>
         /\ k \in lastDrain'.timedOut
         /\ IF InSeq(symbolToPage', k) THEN ~OpenStarted(k) /\ ~Has(queuedJobs', k)
            ELSE \/ ~OpenStarted(k) /\ QueuedAfresh(k)
                 \/ OpenStarted(k) /\ ~Has(queuedJobs', k)]_vars
\* two jobs timed out in one run of the loop: one was started, the other is queued
\* afresh behind it
OneRetriedOneWaiting ==
  \E k \in lastDrain.timedOut : \E j \in lastDrain.timedOut \ {k} :
    /\ OpensOf(k) = 1 /\ ~Has(queuedJobs, k) /\ ~InSeq(symbolToPage, k)
    /\ Has(queuedJobs, j) /\ queuedJobs[j] = [priority |-> 0, enqueuedAt |-> now] /\ now > 0

\* C31: the queue never holds more than maxQueue jobs; a subscribe for a key that
\* has no page and no job yet, made while the queue holds maxQueue jobs, leaves
\* the queue, queuedJobs and the opens as they are and registers its listener.
QueueWithinCap ==
  [][/\ totalQueued(Q)' <= maxQueue
     /\ \A i \in 1..Len(ManySymbols) :
          LET s == ManySymbols[i]
          IN /\ totalQueued(Q) >= maxQueue
             /\ ~Has(queuedJobs, s) /\ ~InSeq(symbolToPage, s)
             /\ Subscribe(s, "L1", {})
             => /\ UNCHANGED <<queuedJobs, queueByPriority, inFlightOpens, opens>>
                /\ InSeq(SubsOf(symbolToSubs', s), "L1")]_vars
\* the queue is full, and a key subscribed then has its listener and neither a job
\* nor an open nor a page
DroppedAtCap ==
  /\ totalQueued(Q) = maxQueue
  /\ \E k \in DOMAIN symbolToSubs :
       /\ InSeq(symbolToSubs[k], "L1")
       /\ ~Has(queuedJobs, k) /\ ~InSeq(symbolToPage, k) /\ \A o \in BagToSet(opens) : o.sym # k

\* C32: when an open of a key fails, the key gets no page; with a subscriber it is
\* queued again, at priority 1, unless its open has started again in the same step
\* or it has a page already; without a subscriber it is not queued again.
FailedOpenRequeued ==
  [][\A o \in BagToSet(opens) :
       OpenFails(o) =>
         /\ symbolToPage' = symbolToPage
         /\ IF NoSubs(symbolToSubs, o.sym)
            THEN ~OpenStarted(o.sym) /\ (Has(queuedJobs', o.sym) => Has(queuedJobs, o.sym))
            ELSE /\ Has(queuedJobs', o.sym) \/ OpenStarted(o.sym) \/ InSeq(symbolToPage, o.sym)
                 /\ Has(queuedJobs', o.sym) /\ ~Has(queuedJobs, o.sym) =>
                      /\ queuedJobs'[o.sym].priority = 1
                      /\ Occurrences(BucketOf(1)', o.sym) = 1]_vars

\* The opens of every key are counted: the opens a step starts are those it adds
\* to the opens in flight, and one for each key of settled that has an open again.
\* Beyond MaxOpenerCalls only the parity of a key's count is kept.
UpTo(n, m) == IF n > m THEN n - 2 ELSE n
CountOpens(settled) ==
  openerCalls' = [k \in Keys |->
                    UpTo(openerCalls[k] + OpensOf(k)' + (IF k \in settled THEN 1 ELSE 0)
                           - OpensOf(k), MaxOpenerCalls)]

\* Three symbols that are subscribed once each and stay subscribed, one open at a
\* time, and an opener that fails every time.
InitRetry == Pool0 /\ Service0(TRUE) /\ Web0(<<>>) /\ openConcurrency = 1 /\ maxPages = 2 /\ screenerRows = {}
NextRetry ==
  /\ \/ (\E k \in Keys : ~Has(symbolToSubs, k) /\ Subscribe(k, "L1", {}) /\ CountOpens({}))
     \/ (\E o \in BagToSet(opens) :
           openerCalls[o.sym] < MaxOpenerCalls /\ OpenFails(o) /\ CountOpens({o.sym}))
  /\ UNCHANGED <<steps, service, web>>
SpecRetry == InitRetry /\ [][NextRetry]_vars

\* C33: the opener of a key that stays subscribed is called at most twice, the
\* first open and one retry; after that the key is dropped.
OpenerCalledAtMostTwice == \A k \in Keys : openerCalls[k] <= 2

\* Two symbols under a capacity of one page and one open at a time, a bounded
\* number of calls and then no more, opens that are counted, and every open in
\* flight settling in the end.
Settle ==
  /\ \E o \in BagToSet(opens) : (OpenSucceeds(o) \/ OpenFails(o)) /\ CountOpens({o.sym})
  /\ UNCHANGED <<steps, service, web>>
Evicted ==
  /\ \E o \in BagToSet(opens) : EvictDone(o) /\ CountOpens({})
  /\ UNCHANGED <<steps, service, web>>
NextDrain ==
  \/ /\ Calls({"X", "Y"}, {"L1"}, {{}}, TRUE, TRUE)
     /\ CountOpens({})
     /\ UNCHANGED <<service, web>>
  \/ Settle
  \/ Evicted
SpecDrain == InitPair /\ [][NextDrain]_vars /\ WF_vars(Settle) /\ WF_vars(Evicted)

\* the queue is empty, no open is in flight, and every key that has a subscriber
\* has had an open started
Drained ==
  /\ totalQueued(Q) = 0
  /\ inFlightOpens = 0
  /\ \A k \in Keys : ~NoSubs(symbolToSubs, k) => openerCalls[k] > 0

\* C34: when no further call arrives and every open that started settles, the
\* queue gets empty, no open is in flight, and every key that has a subscriber has
\* had an open started.
DrainProgress == []<>Drained

\* One client on one symbol that has a row on the screener page, no browser at the
\* start: the fast path of subscribe answers, at once when the price is cached,
\* next to the prices of the symbol's own page.
InitBridge == Pool0 /\ Service0(FALSE) /\ Web0(<<>>) /\ openConcurrency = 2 /\ maxPages = 2 /\ screenerRows = {"100"}
NextBridge ==
  /\ \/ Service(Clients, {"x"}, {<<>>, <<"X">>}, {"101"})
     \/ Continuations(Clients)
     \/ (\E f \in BagToSet(screenerFetches), p \in screenerRows \cup {""} : ScreenerPrice(f, p))
          /\ UNCHANGED steps
  /\ UNCHANGED <<web, openerCalls>>
SpecBridge == InitBridge /\ [][NextBridge]_vars

\* the event pushed to a stream last, while it waits in the queue or was yielded last
LastOut(s) == IF Len(s.queue) > 0 THEN s.queue[Len(s.queue)] ELSE s.out

\* C35: when a reconcile subscribes a key for which the pool holds a last value,
\* that step appends one event to the stream, carrying that value, and nothing else.
BridgedOnce ==
  [][\A c \in Clients, i \in 1..2 :
       (/\ SubscribeReturns(c, i)
        /\ Has(symbolToLast, stream[c].runs[i].sym)
        /\ symbolToLast[stream[c].runs[i].sym] # "") =>
         /\ stream'[c].sent = stream[c].sent + 1
         /\ LastOut(stream'[c]) = [symbol |-> stream[c].runs[i].sym,
                                   priceString |-> symbolToLast[stream[c].runs[i].sym]]]_vars

\* The keys for which a listener of a client's stream is in the subscriber set.
KeysHeardBy(c) ==
  {k \in DOMAIN symbolToSubs : \E l \in ListenersOf(c) : InSeq(symbolToSubs[k], l)}

\* the stream of a client is open and no reconcile of it is under way
AtRest(c) ==
  /\ stream[c].pc \in {"waiting", "yielded"}
  /\ ~stream[c].reconciling /\ stream[c].runs = <<>>

\* C36: whenever a stream is open and no reconcile of it is under way, its handlers
\* are those of the symbols of the client's set, and for each of them the handler,
\* and no other listener of the stream, is subscribed in the pool.
ReconcileConverges ==
  \A c \in DOMAIN stream :
    AtRest(c) =>
      /\ HandlerKeys(stream[c]) = {SetOf(c)[i] : i \in 1..Len(SetOf(c))}
      /\ KeysHeardBy(c) = HandlerKeys(stream[c])
      /\ \A j \in 1..Len(stream[c].handlers) :
           \A l \in ListenersOf(c) :
             Occurrences(SubsOf(symbolToSubs, stream[c].handlers[j].sym), l)
               = (IF l = stream[c].handlers[j].h THEN 1 ELSE 0)

\* C37: the teardown of a client's stream leaves the client's set of symbols
\* empty, or removes it.
TeardownClearsInterest ==
  [][\A c \in Clients : Teardown(c) => SetOf(c)' = <<>>]_vars

\* C38: every key that has a subscriber has a page that is not being closed, an
\* open in flight or a job in the queue.
NeverStranded ==
  \A k \in Keys :
    ~NoSubs(symbolToSubs, k) =>
      \/ InSeq(symbolToPage, k) /\ ~BagIn(k, closing) /\ \A o \in BagToSet(opens) : o.victim # k
      \/ OpensOf(k) > 0
      \/ Has(queuedJobs, k)

\* The p-th event pushed to a stream, while it is the event yielded last or waits
\* in the queue, and the keys of the events a step pushes to the stream of a client.
EventAt(s, p) == IF p > s.got THEN s.queue[p - s.got] ELSE s.out
Appended(c) == {EventAt(stream'[c], p).symbol : p \in (stream[c].sent + 1)..stream'[c].sent}

\* C39: every event pushed to a client's stream carries a symbol that is in the
\* client's set or has a handler of the stream at that moment; so for a symbol the
\* reconcile has unsubscribed nothing is pushed until it is added again.
SessionIsolation ==
  [][\A c \in DOMAIN stream :
       /\ Len(stream'[c].queue) = stream'[c].sent - stream'[c].got
       /\ Appended(c) \subseteq
            {SetOf(c)'[i] : i \in 1..Len(SetOf(c)')} \cup HandlerKeys(stream[c])]_vars

\* a price of X was processed after the reconcile of a stream had unsubscribed X,
\* and nothing was pushed to the stream
UnsubscribedKeyQuiet ==
  \E c \in DOMAIN stream :
    /\ stream[c].lastRun.ended
    /\ InSeq(stream[c].lastRun.calls, [op |-> "unsubscribe", sym |-> "X"])
    /\ "X" \notin HandlerKeys(stream[c]) /\ ~InSeq(SetOf(c), "X")
    /\ Has(symbolToLast, "X") /\ stream[c].sent = 0

\* One client on one symbol whose page reconnects, no browser at the start: a
\* second stream of the client may start while the first is still there.
InitReconnect == Pool0 /\ Service0(FALSE) /\ Web0(<<>>) /\ openConcurrency = 2 /\ maxPages = 2 /\ screenerRows = {}
NextReconnect ==
  /\ \/ Service(StreamIds, {"x"}, {<<>>, <<"X">>}, {"100"})
     \/ Continuations(StreamIds)
  /\ UNCHANGED <<web, openerCalls>>
SpecReconnect == InitReconnect /\ [][NextReconnect]_vars

\* a stream that has started and whose generator has not been left
Open(d) == Has(stream, d) /\ stream[d].pc \in {"starting", "waiting", "yielded"}

\* a step calls the reconcile of a stream: it starts a run, or finds one running
Triggered(d) == IF stream[d].reconciling THEN stream'[d].coalesced ELSE stream'[d].reconciling

\* C40: while a client has an open stream, an addTicker or removeTicker that
\* changes the client's set calls the reconcile of an open stream of the client,
\* also after an older stream of the client was torn down.
NotifierFollowsStream ==
  [][\A c \in Clients, s \in Symbols :
       (/\ AddTicker(c, s) \/ RemoveTicker(c, s)
        /\ SetOf(c)' # SetOf(c)
        /\ \E d \in StreamIds : clientId(d) = c /\ Open(d)) =>
         \E d \in StreamIds : clientId(d) = c /\ Open(d) /\ Triggered(d)]_vars

====
